---- MODULE Spec2Model ----
(***************************************************************************)
(* beekeeper-updater-swarm: the reconciliation pass of deployer.Run, the   *)
(* update decision of updateService, the spec built by deploy, the image   *)
(* reference parser and the driver loop of main.run.                       *)
(*                                                                         *)
(* A Go string is a sequence of one-character strings, so that             *)
(* strings.Split is computed and not assumed.  A Go map[string]string is a *)
(* record [isNil, kv]: kv is a function from keys to strings, isNil tells  *)
(* the nil map from the empty one.                                         *)
(***************************************************************************)
EXTENDS Integers, Sequences, FiniteSets, TLC

VARIABLES
  services,         \* the orchestrator's service records, by service ID
  now,              \* the wall clock read by time.Now()
  pc,               \* position of the driver loop of main.run
  sigTermReceived,  \* the flag set by the SIGTERM goroutine
  goroutine,        \* position of the SIGTERM goroutine
  snapshot,         \* the slice ServiceList returned to this pass
  idx,              \* the next index of the range loop of Run (1-based)
  runErr,           \* the value Run returned
  outcome,          \* per index of snapshot, what Run did with the service
  oracleCalls,      \* the HTTP GETs of this pass, in order
  updateCalls,      \* the ServiceUpdate calls of this pass, in order
  parseIn,          \* input of the parser under test
  parseOut,         \* its result
  replIn,           \* input of getUpdateParallelism under test
  replOut,          \* its result
  deployIn,         \* input of deploy under test
  deployOut         \* the ServiceUpdate call it issued

vars == <<services, now, pc, sigTermReceived, goroutine, snapshot, idx, runErr,
          outcome, oracleCalls, updateCalls, parseIn, parseOut, replIn,
          replOut, deployIn, deployOut>>

passVars == <<services, now, pc, sigTermReceived, snapshot, idx, runErr,
              outcome, oracleCalls, updateCalls>>
parseVars == <<parseIn, parseOut>>
replVars == <<replIn, replOut>>
deployVars == <<deployIn, deployOut>>

----------------------------------------------------------------------------
(* Bounds *)

MaxParseLen == 7      \* longest parser input
MaxReplicas == 96     \* largest replica count given to getUpdateParallelism
MaxClock == 1         \* passes the driver loop may start after the first
MaxVersion == 3       \* highest version index the orchestrator hands out

----------------------------------------------------------------------------
(* Strings *)

Empty == <<>>

LabelUpdate == "octoblu.beekeeper.update"
LabelLastDockerURL == "octoblu.beekeeper.lastDockerURL"
LabelLastUpdatedAt == "octoblu.beekeeper.lastUpdatedAt"

StrTrue == <<"t", "r", "u", "e">>
StrFalse == <<"f", "a", "l", "s", "e">>
StrPause == <<"p", "a", "u", "s", "e">>
StrContinue == <<"c", "o", "n", "t", "i", "n", "u", "e">>

UpdateStateUpdating == "updating"
UpdateStatePaused == "paused"
UpdateStateCompleted == "completed"
UpdateStateNone == ""

\* strings.Split(s, sep) for a one-character separator: the substrings
\* between the separators, one more than the number of separators.
RECURSIVE SplitFrom(_, _, _, _)
SplitFrom(s, sep, i, cur) ==
  IF i > Len(s) THEN <<cur>>
  ELSE IF s[i] = sep THEN <<cur>> \o SplitFrom(s, sep, i + 1, <<>>)
  ELSE SplitFrom(s, sep, i + 1, Append(cur, s[i]))

Split(s, sep) == SplitFrom(s, sep, 1, <<>>)

\* m[k] of a Go map: the zero value "" when the key is missing or m is nil
MapGet(m, k) == IF k \in DOMAIN m.kv THEN m.kv[k] ELSE Empty

\* m[k] = v on a non-nil map
MapSet(m, k, v) ==
  [isNil |-> FALSE,
   kv |-> [x \in (DOMAIN m.kv) \cup {k} |-> IF x = k THEN v ELSE m.kv[x]]]

\* make(map[string]string)
MakeMap == [isNil |-> FALSE, kv |-> [x \in {} |-> Empty]]
NilMap == [isNil |-> TRUE, kv |-> [x \in {} |-> Empty]]

----------------------------------------------------------------------------
(* The image reference parser *)

\* Mutant: the digest suffix is not stripped.
getRealDockerURLKeepsDigest(dockerURL) == dockerURL

getRealDockerURL(dockerURL) == Split(dockerURL, "@")[1]

\* Mutant: a three-segment path keeps its registry host as the owner.
parseDockerURLKeepsHost(dockerURL) ==
  LET realDockerURL == getRealDockerURL(dockerURL)
      dockerURLParts == Split(realDockerURL, ":")
  IN IF Len(dockerURLParts) # 2 THEN <<Empty, Empty, Empty>>
     ELSE LET tag == dockerURLParts[2]
              projectParts == Split(dockerURLParts[1], "/")
          IN IF Len(projectParts) = 2 \/ Len(projectParts) = 3
               THEN <<projectParts[1], projectParts[2], tag>>
             ELSE <<Empty, Empty, Empty>>

parseDockerURL(dockerURL) ==
  LET realDockerURL == getRealDockerURL(dockerURL)
      dockerURLParts == Split(realDockerURL, ":")
  IN IF Len(dockerURLParts) # 2 THEN <<Empty, Empty, Empty>>
     ELSE LET tag == dockerURLParts[2]
              projectParts == Split(dockerURLParts[1], "/")
          IN IF Len(projectParts) = 2
               THEN <<projectParts[1], projectParts[2], tag>>
             ELSE IF Len(projectParts) = 3
               THEN <<projectParts[2], projectParts[3], tag>>
             ELSE <<Empty, Empty, Empty>>

----------------------------------------------------------------------------
(* Reading a service record *)

\* Mutant: the parallelism is the tenth of the replica count, at least 1.
getUpdateParallelismTenth(service) ==
  IF ~service.Spec.Mode.Replicated THEN 1
  ELSE IF ~service.Spec.Mode.HasReplicas THEN 1
  ELSE IF service.Spec.Mode.Replicas < 10 THEN 1
  ELSE service.Spec.Mode.Replicas \div 10

\* Mutant: the parallelism is the rounded-up tenth of the replica count.
getUpdateParallelismCeil(service) ==
  IF ~service.Spec.Mode.Replicated THEN 1
  ELSE IF ~service.Spec.Mode.HasReplicas THEN 1
  ELSE (service.Spec.Mode.Replicas + 9) \div 10

getUpdateParallelism(service) ==
  IF ~service.Spec.Mode.Replicated THEN 1
  ELSE IF ~service.Spec.Mode.HasReplicas THEN 1
  ELSE (service.Spec.Mode.Replicas \div 10) + 1

getCurrentDockerURL(service) == getRealDockerURL(service.Spec.Image)

getLastDockerURL(service) ==
  IF service.Spec.Labels.isNil THEN Empty
  ELSE MapGet(service.Spec.Labels, LabelLastDockerURL)

\* Mutant: the in-progress test looks for the paused state.
isUpdateInProcessPaused(service) ==
  service.UpdateStatus.State = UpdateStatePaused

isUpdateInProcess(service) == service.UpdateStatus.State = UpdateStateUpdating

didLastUpdatePass(service) ==
  IF service.UpdateStatus.State # UpdateStatePaused THEN TRUE ELSE FALSE

doesDockerURLMatchCurrent(dockerURL, service) ==
  LET currentDockerURL == getCurrentDockerURL(service)
  IN IF currentDockerURL = Empty THEN FALSE
     ELSE dockerURL = currentDockerURL

\* Mutant: the last reference is read from the container labels, which deploy
\* does not write, so it is always "".
doesDockerURLMatchLastContainerLabels(dockerURL, service) ==
  LET lastDockerURL == Empty
  IN IF lastDockerURL = Empty THEN FALSE
     ELSE dockerURL = lastDockerURL

doesDockerURLMatchLast(dockerURL, service) ==
  LET lastDockerURL == getLastDockerURL(service)
  IN IF lastDockerURL = Empty THEN FALSE
     ELSE dockerURL = lastDockerURL

----------------------------------------------------------------------------
(* Eligibility, decision, spec builder *)

\* Mutant: the opt-in label is left to the listing filter.
shouldUpdateServiceNoLabelCheck(service) ==
  IF getCurrentDockerURL(service) = Empty
    THEN [shouldUpdate |-> FALSE, err |-> FALSE]
  ELSE IF isUpdateInProcess(service)
    THEN [shouldUpdate |-> FALSE, err |-> FALSE]
  ELSE [shouldUpdate |-> TRUE, err |-> FALSE]

shouldUpdateService(service) ==
  IF MapGet(service.Spec.Labels, LabelUpdate) # StrTrue
    THEN [shouldUpdate |-> FALSE, err |-> FALSE]
  ELSE IF getCurrentDockerURL(service) = Empty
    THEN [shouldUpdate |-> FALSE, err |-> FALSE]
  ELSE IF isUpdateInProcess(service)
    THEN [shouldUpdate |-> FALSE, err |-> FALSE]
  ELSE [shouldUpdate |-> TRUE, err |-> FALSE]

StatusOK == 200

\* An HTTP exchange with the beekeeper service: a transport error, or a
\* status code and a body that is empty, malformed, or a JSON object whose
\* docker_url is the given string ("" when the key is missing).
Response(transportErr, status, kind, url) ==
  [transportErr |-> transportErr, StatusCode |-> status,
   body |-> [kind |-> kind, docker_url |-> url]]

getLatestDeployment(res) ==
  IF res.transportErr THEN [dockerURL |-> Empty, err |-> TRUE]
  ELSE IF res.StatusCode # StatusOK THEN [dockerURL |-> Empty, err |-> TRUE]
  ELSE IF res.body.kind = "empty" THEN [dockerURL |-> Empty, err |-> FALSE]
  ELSE IF res.body.kind = "malformed" THEN [dockerURL |-> Empty, err |-> TRUE]
  ELSE [dockerURL |-> res.body.docker_url, err |-> FALSE]

\* Mutant: the oracle is asked whatever the parser returned.
updateServiceNoRepoCheck(service, res) ==
  LET currentDockerURL == getCurrentDockerURL(service)
      parsed == parseDockerURL(currentDockerURL)
      owner == parsed[1]
      repo == parsed[2]
      latest == getLatestDeployment(res)
      dockerURL == latest.dockerURL
      base == [queried |-> TRUE, owner |-> owner, repo |-> repo,
               dockerURL |-> dockerURL, oracleErr |-> latest.err,
               err |-> FALSE, deploy |-> FALSE]
  IN IF latest.err THEN [base EXCEPT !.err = TRUE]
     ELSE IF dockerURL = Empty THEN base
     ELSE IF doesDockerURLMatchCurrent(dockerURL, service) THEN base
     ELSE IF ~didLastUpdatePass(service)
             /\ doesDockerURLMatchLast(dockerURL, service) THEN base
     ELSE [base EXCEPT !.deploy = TRUE]

\* Mutant: an empty answer of the oracle is not told from a reference.
updateServiceNoEmptyCheck(service, res) ==
  LET currentDockerURL == getCurrentDockerURL(service)
      parsed == parseDockerURL(currentDockerURL)
      owner == parsed[1]
      repo == parsed[2]
      latest == getLatestDeployment(res)
      dockerURL == latest.dockerURL
      base == [queried |-> TRUE, owner |-> owner, repo |-> repo,
               dockerURL |-> dockerURL, oracleErr |-> latest.err,
               err |-> FALSE, deploy |-> FALSE]
  IN IF owner = Empty \/ repo = Empty
       THEN [base EXCEPT !.queried = FALSE, !.dockerURL = Empty,
                         !.oracleErr = FALSE, !.err = TRUE]
     ELSE IF latest.err THEN [base EXCEPT !.err = TRUE]
     ELSE IF doesDockerURLMatchCurrent(dockerURL, service) THEN base
     ELSE IF ~didLastUpdatePass(service)
             /\ doesDockerURLMatchLast(dockerURL, service) THEN base
     ELSE [base EXCEPT !.deploy = TRUE]

\* updateService up to its last line: whether the oracle was asked, what it
\* answered, the error returned before deploy, and whether deploy is called.
updateService(service, res) ==
  LET currentDockerURL == getCurrentDockerURL(service)
      parsed == parseDockerURL(currentDockerURL)
      owner == parsed[1]
      repo == parsed[2]
      latest == getLatestDeployment(res)
      dockerURL == latest.dockerURL
      base == [queried |-> TRUE, owner |-> owner, repo |-> repo,
               dockerURL |-> dockerURL, oracleErr |-> latest.err,
               err |-> FALSE, deploy |-> FALSE]
  IN IF owner = Empty \/ repo = Empty
       THEN [base EXCEPT !.queried = FALSE, !.dockerURL = Empty,
                         !.oracleErr = FALSE, !.err = TRUE]
     ELSE IF latest.err THEN [base EXCEPT !.err = TRUE]
     ELSE IF dockerURL = Empty THEN base
     ELSE IF doesDockerURLMatchCurrent(dockerURL, service) THEN base
     ELSE IF ~didLastUpdatePass(service)
             /\ doesDockerURLMatchLast(dockerURL, service) THEN base
     ELSE [base EXCEPT !.deploy = TRUE]

\* strconv-style decimal rendering, used for the timestamp
Digits == <<"0", "1", "2", "3", "4", "5", "6", "7", "8", "9">>

RECURSIVE Itoa(_)
Itoa(n) == IF n < 10 THEN <<Digits[n + 1]>>
           ELSE Itoa(n \div 10) \o <<Digits[(n % 10) + 1]>>

\* time.Now().Format(time.RFC3339), the clock counted in seconds
FormatRFC3339(t) == <<"T">> \o Itoa(t) \o <<"Z">>

\* Mutant: deploy changes the image only.
deployImageOnly(service, dockerURL, currentDate) ==
  [ID |-> service.ID, Version |-> service.Version,
   Spec |-> [service.Spec EXCEPT !.Image = dockerURL]]

\* Mutant: deploy writes its two labels into a fresh label map.
deployFreshLabels(service, dockerURL, currentDate) ==
  LET labels0 == MakeMap
      labels1 == MapSet(labels0, LabelLastDockerURL, dockerURL)
      labels2 == MapSet(labels1, LabelLastUpdatedAt, currentDate)
      service1 == [service EXCEPT !.Spec.Image = dockerURL,
                                  !.Spec.Labels = labels2]
      spec == [service1.Spec EXCEPT
                 !.UpdateConfig.Parallelism = getUpdateParallelism(service1),
                 !.UpdateConfig.FailureAction = StrPause]
  IN [ID |-> service.ID, Version |-> service.Version, Spec |-> spec]

\* Mutant: deploy keeps using the version token of the first listing.
deployFirstVersion(service, dockerURL, currentDate) ==
  LET labels0 == IF service.Spec.Labels.isNil THEN MakeMap
                 ELSE service.Spec.Labels
      labels1 == MapSet(labels0, LabelLastDockerURL, dockerURL)
      labels2 == MapSet(labels1, LabelLastUpdatedAt, currentDate)
      service1 == [service EXCEPT !.Spec.Image = dockerURL,
                                  !.Spec.Labels = labels2]
      spec == [service1.Spec EXCEPT
                 !.UpdateConfig.Parallelism = getUpdateParallelism(service1),
                 !.UpdateConfig.FailureAction = StrPause]
  IN [ID |-> service.ID, Version |-> 1, Spec |-> spec]

\* deploy: the arguments of the ServiceUpdate call it issues
deploy(service, dockerURL, currentDate) ==
  LET labels0 == IF service.Spec.Labels.isNil THEN MakeMap
                 ELSE service.Spec.Labels
      labels1 == MapSet(labels0, LabelLastDockerURL, dockerURL)
      labels2 == MapSet(labels1, LabelLastUpdatedAt, currentDate)
      service1 == [service EXCEPT !.Spec.Image = dockerURL,
                                  !.Spec.Labels = labels2]
      spec == [service1.Spec EXCEPT
                 !.UpdateConfig.Parallelism = getUpdateParallelism(service1),
                 !.UpdateConfig.FailureAction = StrPause]
  IN [ID |-> service.ID, Version |-> service.Version, Spec |-> spec]

----------------------------------------------------------------------------
(* The orchestrator *)

\* ServiceUpdate as the swarm manager answers it: a version that is not the
\* record's current one is rejected (update out of sequence); a current one
\* is accepted, or rejected for a reason of the manager's own.
ServiceUpdateAccepted(svcs, call, managerAccepts) ==
  /\ call.Version = svcs[call.ID].Version
  /\ svcs[call.ID].Version < MaxVersion
  /\ managerAccepts

ServiceUpdate(svcs, call, managerAccepts) ==
  IF ServiceUpdateAccepted(svcs, call, managerAccepts)
    THEN [svcs EXCEPT ![call.ID] =
            [ID |-> call.ID, Version |-> call.Version + 1, Spec |-> call.Spec,
             UpdateStatus |-> [State |-> UpdateStateUpdating]]]
  ELSE svcs

----------------------------------------------------------------------------
(* The inputs of the reconciliation pass *)

ImgV1 == <<"a", "/", "b", ":", "1">>
ImgV2 == <<"a", "/", "b", ":", "2">>
ImgNoOwner == <<"b", ":", "1">>
Digest == <<"@", "s", ":", "d">>

ServiceOrder == <<"s1", "s2">>
ServiceIDs == {ServiceOrder[i] : i \in 1..Len(ServiceOrder)}

InitImages == {Empty, ImgV1, ImgV1 \o Digest, ImgNoOwner}
InitStates == {UpdateStateNone, UpdateStateUpdating, UpdateStatePaused}
OracleURLs == {Empty, ImgV1, ImgV2, ImgV1 \o Digest}

InitLabels ==
  {MapSet(MakeMap, "team", <<"x">>),
   MapSet(MakeMap, LabelUpdate, StrFalse),
   MapSet(MakeMap, LabelUpdate, StrTrue),
   MapSet(MapSet(MakeMap, LabelUpdate, StrTrue), LabelLastDockerURL, ImgV2)}

InitMode(id) ==
  IF id = "s1" THEN [Replicated |-> TRUE, HasReplicas |-> TRUE, Replicas |-> 10]
  ELSE [Replicated |-> FALSE, HasReplicas |-> FALSE, Replicas |-> 0]

\* The first service of the listing takes every combination; the second a
\* selection that is skipped, fails, is left alone or is updated.
InitLabelsOf(id) ==
  IF id = "s1" THEN InitLabels
  ELSE {MapSet(MakeMap, "team", <<"x">>), MapSet(MakeMap, LabelUpdate, StrTrue)}

InitImagesOf(id) == IF id = "s1" THEN InitImages ELSE {ImgV1, ImgNoOwner}

InitStatesOf(id) ==
  IF id = "s1" THEN InitStates ELSE {UpdateStateNone}

InitServiceRecords(id) ==
  {[ID |-> id, Version |-> 1,
    Spec |-> [Name |-> id, Labels |-> l, Image |-> img, Mode |-> InitMode(id),
              UpdateConfig |-> [Parallelism |-> 1, Delay |-> 0,
                                FailureAction |-> StrContinue]],
    UpdateStatus |-> [State |-> st]] :
     l \in InitLabelsOf(id), img \in InitImagesOf(id), st \in InitStatesOf(id)}

OracleResponses ==
  {Response(TRUE, 0, "empty", Empty), Response(FALSE, 500, "empty", Empty),
   Response(FALSE, StatusOK, "empty", Empty),
   Response(FALSE, StatusOK, "malformed", Empty)}
  \cup {Response(FALSE, StatusOK, "json", u) : u \in OracleURLs}

\* ServiceList with the filter label=octoblu.beekeeper.update: every service
\* that carries the label key, in the manager's order; a manager that does
\* not apply the filter also returns services without the key.
HasUpdateLabel(svc) == LabelUpdate \in DOMAIN svc.Spec.Labels.kv

ServiceList(svcs, unfiltered) ==
  LET listed(id) == HasUpdateLabel(svcs[id]) \/ id \in unfiltered
      ids == SelectSeq(ServiceOrder, listed)
  IN [i \in 1..Len(ids) |-> svcs[ids[i]]]

----------------------------------------------------------------------------
(* One iteration of the range loop of Run *)

\* Mutant: the loop body works on the record the manager holds by now, not
\* on the element of the listing.
LoopBodyInspects(svcs, i, service, res, managerAccepts, currentDate) ==
  LET current == svcs[service.ID]
      su == shouldUpdateService(current)
      plan == updateService(current, res)
      call == deploy(current, plan.dockerURL, currentDate)
      accepted == ServiceUpdateAccepted(svcs, call, managerAccepts)
      asked == su.shouldUpdate /\ plan.queried
      deployed == su.shouldUpdate /\ plan.deploy
  IN [shouldUpdate |-> su.shouldUpdate,
      err |-> su.err \/ (su.shouldUpdate /\ plan.err) \/ (deployed /\ ~accepted),
      oracle |-> IF asked
                   THEN <<[i |-> i, ID |-> service.ID, owner |-> plan.owner,
                           repo |-> plan.repo, dockerURL |-> plan.dockerURL,
                           err |-> plan.oracleErr]>>
                 ELSE <<>>,
      update |-> IF deployed
                   THEN <<[i |-> i, call |-> call, err |-> ~accepted]>>
                 ELSE <<>>,
      services |-> IF deployed THEN ServiceUpdate(svcs, call, managerAccepts)
                   ELSE svcs]

\* Mutant: a failed oracle query and a rejected ServiceUpdate are attempted
\* a second time at once.
LoopBodyRetries(svcs, i, service, res, managerAccepts, currentDate) ==
  LET su == shouldUpdateService(service)
      plan == updateService(service, res)
      call == deploy(service, plan.dockerURL, currentDate)
      accepted == ServiceUpdateAccepted(svcs, call, managerAccepts)
      asked == su.shouldUpdate /\ plan.queried
      deployed == su.shouldUpdate /\ plan.deploy
      query == [i |-> i, ID |-> service.ID, owner |-> plan.owner,
                repo |-> plan.repo, dockerURL |-> plan.dockerURL,
                err |-> plan.oracleErr]
      update == [i |-> i, call |-> call, err |-> ~accepted]
  IN [shouldUpdate |-> su.shouldUpdate,
      err |-> su.err \/ (su.shouldUpdate /\ plan.err) \/ (deployed /\ ~accepted),
      oracle |-> IF ~asked THEN <<>>
                 ELSE IF plan.oracleErr THEN <<query, query>> ELSE <<query>>,
      update |-> IF ~deployed THEN <<>>
                 ELSE IF ~accepted THEN <<update, update>> ELSE <<update>>,
      services |-> IF deployed THEN ServiceUpdate(svcs, call, managerAccepts)
                   ELSE svcs]

\* The body of the loop for one service: what is logged for it, the oracle
\* and ServiceUpdate calls it makes, and the orchestrator's records after it.
LoopBody(svcs, i, service, res, managerAccepts, currentDate) ==
  LET su == shouldUpdateService(service)
      plan == updateService(service, res)
      call == deploy(service, plan.dockerURL, currentDate)
      accepted == ServiceUpdateAccepted(svcs, call, managerAccepts)
      asked == su.shouldUpdate /\ plan.queried
      deployed == su.shouldUpdate /\ plan.deploy
  IN [shouldUpdate |-> su.shouldUpdate,
      err |-> su.err \/ (su.shouldUpdate /\ plan.err) \/ (deployed /\ ~accepted),
      oracle |-> IF asked
                   THEN <<[i |-> i, ID |-> service.ID, owner |-> plan.owner,
                           repo |-> plan.repo, dockerURL |-> plan.dockerURL,
                           err |-> plan.oracleErr]>>
                 ELSE <<>>,
      update |-> IF deployed
                   THEN <<[i |-> i, call |-> call, err |-> ~accepted]>>
                 ELSE <<>>,
      services |-> IF deployed THEN ServiceUpdate(svcs, call, managerAccepts)
                   ELSE svcs]

----------------------------------------------------------------------------
(* deployer.Run *)

RunServiceList ==
  /\ pc = "run"
  /\ \/ /\ runErr' = "ServiceList"
        /\ pc' = "returned"
        /\ UNCHANGED <<snapshot, idx>>
     \/ /\ \E unfiltered \in SUBSET ServiceIDs :
             snapshot' = ServiceList(services, unfiltered)
        /\ idx' = 1
        /\ pc' = "range"
        /\ UNCHANGED runErr
  /\ UNCHANGED <<services, now, sigTermReceived, outcome, oracleCalls,
                 updateCalls>>

\* Mutant: Run returns the error of a service instead of going on.
RunServiceReturnsError ==
  /\ pc = "range"
  /\ idx <= Len(snapshot)
  /\ \E res \in OracleResponses, managerAccepts \in BOOLEAN :
       LET r == LoopBody(services, idx, snapshot[idx], res, managerAccepts,
                         FormatRFC3339(now))
       IN /\ services' = r.services
          /\ oracleCalls' = oracleCalls \o r.oracle
          /\ updateCalls' = updateCalls \o r.update
          /\ outcome' = Append(outcome, [shouldUpdate |-> r.shouldUpdate,
                                         err |-> r.err])
          /\ pc' = IF r.err THEN "returned" ELSE pc
          /\ runErr' = IF r.err THEN "service" ELSE runErr
  /\ idx' = idx + 1
  /\ UNCHANGED <<now, sigTermReceived, snapshot>>

RunService ==
  /\ pc = "range"
  /\ idx <= Len(snapshot)
  /\ \E res \in OracleResponses, managerAccepts \in BOOLEAN :
       LET r == LoopBody(services, idx, snapshot[idx], res, managerAccepts,
                         FormatRFC3339(now))
       IN /\ services' = r.services
          /\ oracleCalls' = oracleCalls \o r.oracle
          /\ updateCalls' = updateCalls \o r.update
          /\ outcome' = Append(outcome, [shouldUpdate |-> r.shouldUpdate,
                                         err |-> r.err])
  /\ idx' = idx + 1
  /\ UNCHANGED <<now, pc, sigTermReceived, snapshot, runErr>>

RunReturn ==
  /\ pc = "range"
  /\ idx > Len(snapshot)
  /\ runErr' = "nil"
  /\ pc' = "returned"
  /\ UNCHANGED <<services, now, sigTermReceived, snapshot, idx, outcome,
                 oracleCalls, updateCalls>>

----------------------------------------------------------------------------
(* main.run: the driver loop and the SIGTERM goroutine *)

PollInterval == 60

LoopTop ==
  /\ pc = "loop"
  /\ pc' = IF sigTermReceived THEN "exited" ELSE "run"
  /\ UNCHANGED <<services, now, sigTermReceived, snapshot, idx, runErr,
                 outcome, oracleCalls, updateCalls>>

\* Mutant: the driver loop logs the error of Run and sleeps.
AfterRunLogsError ==
  /\ pc = "returned"
  /\ pc' = "sleep"
  /\ UNCHANGED <<services, now, sigTermReceived, snapshot, idx, runErr,
                 outcome, oracleCalls, updateCalls>>

\* The record of the pass (Run's locals and the calls it made) is dropped
\* once the loop has looked at Run's result and goes to sleep.
AfterRun ==
  /\ pc = "returned"
  /\ IF runErr # "nil"
       THEN /\ pc' = "panicked"
            /\ UNCHANGED <<snapshot, idx, runErr, outcome, oracleCalls,
                           updateCalls>>
       ELSE /\ pc' = "sleep"
            /\ snapshot' = <<>>
            /\ idx' = 1
            /\ runErr' = "nil"
            /\ outcome' = <<>>
            /\ oracleCalls' = <<>>
            /\ updateCalls' = <<>>
  /\ UNCHANGED <<services, now, sigTermReceived>>

Sleep ==
  /\ pc = "sleep"
  /\ now < MaxClock * PollInterval
  /\ now' = now + PollInterval
  /\ pc' = "loop"
  /\ UNCHANGED <<services, sigTermReceived, snapshot, idx, runErr, outcome,
                 oracleCalls, updateCalls>>

\* time.Sleep in a run of any number of passes: the clock stops at its bound
\* (only the lastUpdatedAt label reads it) and the loop goes on.
SleepOn ==
  /\ pc = "sleep"
  /\ now' = IF now < MaxClock * PollInterval THEN now + PollInterval ELSE now
  /\ pc' = "loop"
  /\ UNCHANGED <<services, sigTermReceived, snapshot, idx, runErr, outcome,
                 oracleCalls, updateCalls>>

\* The goroutine's receive from the channel signal.Notify feeds returns: the
\* process has got a SIGTERM.
SigTermReceive ==
  /\ pc \notin {"exited", "panicked"}
  /\ goroutine = "waiting"
  /\ goroutine' = "received"
  /\ UNCHANGED passVars

\* Mutant: the goroutine reports the signal and returns.
SigTermPrintsOnly ==
  /\ pc \notin {"exited", "panicked"}
  /\ goroutine = "received"
  /\ goroutine' = "done"
  /\ UNCHANGED passVars

\* The goroutine prints its message and writes the flag.  The write is not
\* synchronised with the loop's read of the flag: a read that races with it
\* gives the old or the new value, which is the loop's read falling before or
\* after this step.
SigTerm ==
  /\ pc \notin {"exited", "panicked"}
  /\ goroutine = "received"
  /\ sigTermReceived' = TRUE
  /\ goroutine' = "done"
  /\ UNCHANGED <<services, now, pc, snapshot, idx, runErr, outcome,
                 oracleCalls, updateCalls>>

----------------------------------------------------------------------------
(* The orchestrator's own steps *)

\* A rollout in progress ends: completed, or paused by the failure action.
\* Run sees the manager's update status only through its next listing, so
\* the end of a rollout is taken while the driver loop sleeps.
RolloutEnds ==
  /\ pc = "sleep"
  /\ \E id \in ServiceIDs, st \in {UpdateStateCompleted, UpdateStatePaused} :
       /\ services[id].UpdateStatus.State = UpdateStateUpdating
       /\ services' = [services EXCEPT ![id].UpdateStatus.State = st]
  /\ UNCHANGED <<now, pc, sigTermReceived, snapshot, idx, runErr, outcome,
                 oracleCalls, updateCalls>>

\* Another client of the manager changes a service (here: relabels it) after
\* the listing and before Run reaches the service, which moves the record to
\* its next version and makes the listed version token stale.
OtherClientUpdates ==
  /\ pc = "range"
  /\ idx <= Len(snapshot)
  /\ \E id \in {snapshot[idx].ID} :
       /\ services[id].Version < MaxVersion
       /\ MapGet(services[id].Spec.Labels, "team") # <<"y">>
       /\ services' = [services EXCEPT
            ![id].Version = @ + 1,
            ![id].Spec.Labels = MapSet(@, "team", <<"y">>)]
  /\ UNCHANGED <<now, pc, sigTermReceived, snapshot, idx, runErr, outcome,
                 oracleCalls, updateCalls>>

----------------------------------------------------------------------------
(* The specification of the running process *)

Init ==
  /\ services \in {f \in [ServiceIDs -> UNION {InitServiceRecords(id) : id \in ServiceIDs}] :
                     \A id \in ServiceIDs : f[id].ID = id}
  /\ now = 0
  /\ pc = "loop"
  /\ sigTermReceived = FALSE
  /\ goroutine = "waiting"
  /\ snapshot = <<>>
  /\ idx = 1
  /\ runErr = "nil"
  /\ outcome = <<>>
  /\ oracleCalls = <<>>
  /\ updateCalls = <<>>
  /\ parseIn = <<>> /\ parseOut = <<>>
  /\ replIn = <<>> /\ replOut = <<>>
  /\ deployIn = <<>> /\ deployOut = <<>>

Next ==
  \/ (LoopTop /\ UNCHANGED <<parseVars, replVars, deployVars, goroutine>>)
  \/ (RunServiceList /\ UNCHANGED <<parseVars, replVars, deployVars, goroutine>>)
  \/ (RunService /\ UNCHANGED <<parseVars, replVars, deployVars, goroutine>>)
  \/ (RunReturn /\ UNCHANGED <<parseVars, replVars, deployVars, goroutine>>)
  \/ (AfterRun /\ UNCHANGED <<parseVars, replVars, deployVars, goroutine>>)
  \/ (Sleep /\ UNCHANGED <<parseVars, replVars, deployVars, goroutine>>)
  \/ (RolloutEnds /\ UNCHANGED <<parseVars, replVars, deployVars, goroutine>>)
  \/ (OtherClientUpdates /\ UNCHANGED <<parseVars, replVars, deployVars, goroutine>>)

Spec == Init /\ [][Next]_vars

----------------------------------------------------------------------------
(* The driver loop with the SIGTERM goroutine, for any number of passes *)

DriverImages == {ImgV1, ImgNoOwner}

DriverInit ==
  /\ services \in
       {f \in [ServiceIDs -> UNION {InitServiceRecords(id) : id \in ServiceIDs}] :
          \A id \in ServiceIDs :
            /\ f[id].ID = id
            /\ f[id].Spec.Labels = MapSet(MakeMap, LabelUpdate, StrTrue)
            /\ f[id].Spec.Image \in DriverImages
            /\ f[id].UpdateStatus.State = UpdateStateNone}
  /\ now = 0
  /\ pc = "loop"
  /\ sigTermReceived = FALSE
  /\ goroutine = "waiting"
  /\ snapshot = <<>>
  /\ idx = 1
  /\ runErr = "nil"
  /\ outcome = <<>>
  /\ oracleCalls = <<>>
  /\ updateCalls = <<>>
  /\ parseIn = <<>> /\ parseOut = <<>>
  /\ replIn = <<>> /\ replOut = <<>>
  /\ deployIn = <<>> /\ deployOut = <<>>

\* the steps of the main goroutine
DriverLoop ==
  \/ (LoopTop /\ UNCHANGED <<parseVars, replVars, deployVars, goroutine>>)
  \/ (RunServiceList /\ UNCHANGED <<parseVars, replVars, deployVars, goroutine>>)
  \/ (RunService /\ UNCHANGED <<parseVars, replVars, deployVars, goroutine>>)
  \/ (RunReturn /\ UNCHANGED <<parseVars, replVars, deployVars, goroutine>>)
  \/ (AfterRun /\ UNCHANGED <<parseVars, replVars, deployVars, goroutine>>)
  \/ (SleepOn /\ UNCHANGED <<parseVars, replVars, deployVars, goroutine>>)

\* the steps of the SIGTERM goroutine
DriverGoroutine ==
  \/ (SigTermReceive /\ UNCHANGED <<parseVars, replVars, deployVars>>)
  \/ (SigTerm /\ UNCHANGED <<parseVars, replVars, deployVars>>)

DriverNext == DriverLoop \/ DriverGoroutine

DriverSpec == DriverInit /\ [][DriverNext]_vars

\* RunService is enabled when the range loop has an element left.
RunServiceEnabled == pc = "range" /\ idx <= Len(snapshot)

\* The Go scheduler runs a runnable goroutine: the main goroutine takes its
\* next step (every call of Run returns, every sleep ends), and the SIGTERM
\* goroutine, once its receive has returned, goes on to write the flag.  The
\* arrival of the signal is left to the environment.  The weak fairness of
\* RunService is written out with its enabling condition.
DriverFairSpec ==
  /\ DriverInit
  /\ [][DriverNext]_vars
  /\ WF_vars(LoopTop /\ UNCHANGED <<parseVars, replVars, deployVars, goroutine>>)
  /\ WF_vars(RunServiceList
               /\ UNCHANGED <<parseVars, replVars, deployVars, goroutine>>)
  /\ \/ []<>(~RunServiceEnabled)
     \/ []<><<RunService
                /\ UNCHANGED <<parseVars, replVars, deployVars, goroutine>>>>_vars
  /\ WF_vars(RunReturn /\ UNCHANGED <<parseVars, replVars, deployVars, goroutine>>)
  /\ WF_vars(AfterRun /\ UNCHANGED <<parseVars, replVars, deployVars, goroutine>>)
  /\ WF_vars(SleepOn /\ UNCHANGED <<parseVars, replVars, deployVars, goroutine>>)
  /\ WF_vars(SigTerm /\ UNCHANGED <<parseVars, replVars, deployVars>>)

----------------------------------------------------------------------------
(* The parser on its own: every string up to MaxParseLen, then the same    *)
(* reference with a digest suffix appended                                 *)

ParseAlphabet == {"a", "b", ":", "/", "@"}
ParseInputs == UNION {[1..n -> ParseAlphabet] : n \in 0..MaxParseLen}
DigestSuffixes == {<<>>, <<"a">>, <<"a", ":", "b">>, <<"a", "@", "b">>,
                   <<"/", "a", ":">>}

PassUnused ==
  /\ services = <<>>
  /\ now = 0
  /\ sigTermReceived = FALSE
  /\ goroutine = "waiting"
  /\ snapshot = <<>>
  /\ idx = 1
  /\ runErr = "nil"
  /\ outcome = <<>>
  /\ oracleCalls = <<>>
  /\ updateCalls = <<>>

ParseInit ==
  /\ PassUnused
  /\ pc = "parse"
  /\ parseIn \in ParseInputs
  /\ parseOut = <<>>
  /\ replIn = <<>> /\ replOut = <<>>
  /\ deployIn = <<>> /\ deployOut = <<>>

\* parseDockerURL(parseIn)
ParseCall ==
  /\ pc = "parse"
  /\ parseOut' = <<parseDockerURL(parseIn)>>
  /\ pc' = "parsed"
  /\ UNCHANGED parseIn

\* parseDockerURL(parseIn + "@" + d) for a reference without '@'
ParseCallWithDigest ==
  /\ pc = "parsed"
  /\ \A i \in 1..Len(parseIn) : parseIn[i] # "@"
  /\ \E d \in DigestSuffixes :
       /\ parseIn' = parseIn \o <<"@">> \o d
       /\ parseOut' = Append(parseOut, parseDockerURL(parseIn'))
  /\ pc' = "parsedDigest"

ParseNext ==
  \/ (ParseCall /\ UNCHANGED <<services, now, sigTermReceived, goroutine,
                               snapshot, idx, runErr, outcome, oracleCalls,
                               updateCalls, replVars, deployVars>>)
  \/ (ParseCallWithDigest
        /\ UNCHANGED <<services, now, sigTermReceived, goroutine, snapshot,
                       idx, runErr, outcome, oracleCalls, updateCalls,
                       replVars, deployVars>>)

ParseSpec == ParseInit /\ [][ParseNext]_vars

----------------------------------------------------------------------------
(* getUpdateParallelism on its own: every service mode *)

ReplicaModes ==
  {[Replicated |-> FALSE, HasReplicas |-> FALSE, Replicas |-> 0],
   [Replicated |-> TRUE, HasReplicas |-> FALSE, Replicas |-> 0]}
  \cup {[Replicated |-> TRUE, HasReplicas |-> TRUE, Replicas |-> r] :
          r \in 0..MaxReplicas}

ReplInit ==
  /\ PassUnused
  /\ pc = "mode"
  /\ replIn \in ReplicaModes
  /\ replOut = <<>>
  /\ parseIn = <<>> /\ parseOut = <<>>
  /\ deployIn = <<>> /\ deployOut = <<>>

ParallelismCall ==
  /\ pc = "mode"
  /\ replOut' = <<getUpdateParallelism([Spec |-> [Mode |-> replIn]])>>
  /\ pc' = "parallelism"
  /\ UNCHANGED replIn

ReplNext ==
  ParallelismCall /\ UNCHANGED <<services, now, sigTermReceived, goroutine,
                                 snapshot, idx, runErr, outcome, oracleCalls,
                                 updateCalls, parseVars, deployVars>>

ReplSpec == ReplInit /\ [][ReplNext]_vars

----------------------------------------------------------------------------
(* deploy on its own: every label set, mode and target *)

DeployLabels == InitLabels \cup {NilMap, MakeMap}
DeployModes ==
  {m \in ReplicaModes : m.HasReplicas => m.Replicas \in {0, 1, 9, 10, 25}}
DeployTargets == {ImgV1, ImgV2, ImgV2 \o Digest}

DeployServices ==
  {[ID |-> "s1", Version |-> v,
    Spec |-> [Name |-> "s1", Labels |-> l, Image |-> ImgV1, Mode |-> m,
              UpdateConfig |-> [Parallelism |-> 7, Delay |-> 0,
                                FailureAction |-> StrContinue]],
    UpdateStatus |-> [State |-> UpdateStateNone]] :
     l \in DeployLabels, m \in DeployModes, v \in 1..MaxVersion}

DeployInit ==
  /\ PassUnused
  /\ pc = "deploy"
  /\ deployIn \in {[service |-> svc, dockerURL |-> t] :
                     svc \in DeployServices, t \in DeployTargets}
  /\ deployOut = <<>>
  /\ parseIn = <<>> /\ parseOut = <<>>
  /\ replIn = <<>> /\ replOut = <<>>

DeployCall ==
  /\ pc = "deploy"
  /\ deployOut' = <<deploy(deployIn.service, deployIn.dockerURL,
                           FormatRFC3339(now))>>
  /\ pc' = "deployed"
  /\ UNCHANGED deployIn

DeployNext ==
  DeployCall /\ UNCHANGED <<services, now, sigTermReceived, goroutine,
                            snapshot, idx, runErr, outcome, oracleCalls,
                            updateCalls, parseVars, replVars>>

DeploySpec == DeployInit /\ [][DeployNext]_vars

----------------------------------------------------------------------------
(* Properties of one pass *)

Processed == 1..Len(outcome)

OracleCallsFor(i) == {k \in 1..Len(oracleCalls) : oracleCalls[k].i = i}
UpdateCallsFor(i) == {k \in 1..Len(updateCalls) : updateCalls[k].i = i}

\* the oracle answered u for the service at index i (no error)
OracleReturned(i, u) ==
  \E k \in OracleCallsFor(i) :
    ~oracleCalls[k].err /\ oracleCalls[k].dockerURL = u

\* a ServiceUpdate call with image u was made for the service at index i
UpdateCalledWith(i, u) ==
  \E k \in UpdateCallsFor(i) : updateCalls[k].call.Spec.Image = u

LabelOf(service, key) ==
  IF key \in DOMAIN service.Spec.Labels.kv THEN service.Spec.Labels.kv[key]
  ELSE Empty

OptedIn(service) == LabelOf(service, LabelUpdate) = StrTrue

\* the text of a reference before its first '@'
RECURSIVE BeforeDigest(_)
BeforeDigest(u) ==
  IF u = <<>> \/ Head(u) = "@" THEN <<>>
  ELSE <<Head(u)>> \o BeforeDigest(Tail(u))

\* eligible in the sense of the three rules: opted in, an image, not updating
Eligible(service) ==
  /\ OptedIn(service)
  /\ BeforeDigest(service.Spec.Image) # Empty
  /\ service.UpdateStatus.State # UpdateStateUpdating

Paused(i) ==
  /\ i \in Processed
  /\ Eligible(snapshot[i])
  /\ snapshot[i].UpdateStatus.State = UpdateStatePaused

LastOf(i) == LabelOf(snapshot[i], LabelLastDockerURL)

\* C1 (as stated): for an eligible paused service whose lastDockerURL is X,
\* an oracle answer X makes no ServiceUpdate call and any oracle answer
\* Y # X makes a ServiceUpdate call with image Y.
C1_AnyOtherAnswerUpdates ==
  \A i \in Processed :
    Paused(i) =>
      /\ (OracleReturned(i, LastOf(i)) => UpdateCallsFor(i) = {})
      /\ \A y \in OracleURLs :
           (y # LastOf(i) /\ OracleReturned(i, y)) => UpdateCalledWith(i, y)

\* C1 (amended): for an eligible paused service whose lastDockerURL is X,
\* an oracle answer X makes no ServiceUpdate call, and an oracle answer Y # X
\* that is not empty and is not the current image (digest stripped) makes
\* exactly one ServiceUpdate call, with image Y.
C1_FailureLoopPrevention ==
  \A i \in Processed :
    Paused(i) =>
      /\ (OracleReturned(i, LastOf(i)) => UpdateCallsFor(i) = {})
      /\ \A y \in OracleURLs :
           (/\ y # LastOf(i)
            /\ y # Empty
            /\ y # BeforeDigest(snapshot[i].Spec.Image)
            /\ OracleReturned(i, y))
             => (UpdateCalledWith(i, y) /\ Cardinality(UpdateCallsFor(i)) = 1)

\* C1 witness: in one pass a paused service whose lastDockerURL X is not its
\* current image was answered X and left alone, and a paused service was
\* answered some Y other than its lastDockerURL and updated to Y.
C1_Witness ==
  \E i \in Processed, j \in Processed : \E y \in OracleURLs :
    /\ Paused(i)
    /\ LastOf(i) # Empty
    /\ LastOf(i) # BeforeDigest(snapshot[i].Spec.Image)
    /\ OracleReturned(i, LastOf(i))
    /\ UpdateCallsFor(i) = {}
    /\ Paused(j)
    /\ y # LastOf(j)
    /\ OracleReturned(j, y)
    /\ UpdateCalledWith(j, y)

\* C2: for an eligible service in any update-status state, an oracle answer
\* that equals the current image once the digest suffix is dropped on both
\* sides makes no ServiceUpdate call for that service in the pass.
C2_Idempotence ==
  \A i \in Processed : \A u \in OracleURLs :
    (/\ Eligible(snapshot[i])
     /\ OracleReturned(i, u)
     /\ BeforeDigest(u) = BeforeDigest(snapshot[i].Spec.Image))
      => UpdateCallsFor(i) = {}

\* C3: a listed service whose opt-in label is absent or is not "true" gets
\* no oracle query and no ServiceUpdate call.
C3_OptInEligibility ==
  \A i \in Processed :
    ~OptedIn(snapshot[i]) =>
      /\ OracleCallsFor(i) = {}
      /\ UpdateCallsFor(i) = {}
      /\ ~outcome[i].shouldUpdate

\* C3 witness: Run went past a listed service without the label key whose
\* image is parseable and whose last rollout is not in progress.
C3_Witness ==
  \E i \in Processed :
    /\ LabelUpdate \notin DOMAIN snapshot[i].Spec.Labels.kv
    /\ snapshot[i].Spec.Image = ImgV1
    /\ snapshot[i].UpdateStatus.State = UpdateStateNone
    /\ \E j \in Processed : j # i /\ UpdateCallsFor(j) # {}

\* C4: a listed service whose update-status state is updating gets no
\* ServiceUpdate call and no oracle query.
C4_NoRacingInFlightUpdate ==
  \A i \in Processed :
    snapshot[i].UpdateStatus.State = UpdateStateUpdating =>
      /\ UpdateCallsFor(i) = {}
      /\ OracleCallsFor(i) = {}

\* C4 witness: Run went past an opted-in service with a parseable image
\* whose listed state is updating.
C4_Witness ==
  \E i \in Processed :
    /\ OptedIn(snapshot[i])
    /\ snapshot[i].Spec.Image = ImgV1
    /\ snapshot[i].UpdateStatus.State = UpdateStateUpdating

\* the decision the update rules give for an eligible, parseable service
\* when the oracle answers u
UpdateExpected(service, u) ==
  /\ u # Empty
  /\ u # BeforeDigest(service.Spec.Image)
  /\ ~(/\ service.UpdateStatus.State = UpdateStatePaused
       /\ LabelOf(service, LabelLastDockerURL) # Empty
       /\ u = LabelOf(service, LabelLastDockerURL))

Parseable(service) ==
  LET t == parseDockerURL(service.Spec.Image)
  IN t[1] # Empty /\ t[2] # Empty

\* the service at index i was handled as its own record and oracle answer
\* require, whatever happened to the services before it
HandledOnItsOwn(i) ==
  LET service == snapshot[i]
  IN /\ outcome[i].shouldUpdate = Eligible(service)
     /\ Cardinality(OracleCallsFor(i)) =
          (IF Eligible(service) /\ Parseable(service) THEN 1 ELSE 0)
     /\ Cardinality(UpdateCallsFor(i)) =
          (IF \E k \in OracleCallsFor(i) :
                /\ ~oracleCalls[k].err
                /\ UpdateExpected(service, oracleCalls[k].dockerURL)
           THEN 1 ELSE 0)

\* C5: an error for one service (unparseable image, oracle failure, rejected
\* ServiceUpdate) does not abort the pass: Run never returns a per-service
\* error, every later service of the listing is handled as its own record
\* and oracle answer require, and Run returns only after the whole listing.
C5_PerServiceFailureIsolation ==
  /\ runErr \in {"nil", "ServiceList"}
  /\ (pc = "returned" /\ runErr = "nil") => Len(outcome) = Len(snapshot)
  /\ \A i \in Processed :
       (\E j \in 1..(i - 1) : outcome[j].err) => HandledOnItsOwn(i)

\* C5 witness: Run returned nil after a pass in which the first service's
\* ServiceUpdate was rejected for a stale version token and the second
\* service's ServiceUpdate was accepted.
C5_Witness ==
  /\ pc = "returned"
  /\ runErr = "nil"
  /\ Len(snapshot) = 2
  /\ outcome[1].err
  /\ \E k \in UpdateCallsFor(1) :
       /\ updateCalls[k].err
       /\ updateCalls[k].call.Version # services[updateCalls[k].call.ID].Version
  /\ \E k \in UpdateCallsFor(2) : ~updateCalls[k].err

\* C6 (as stated): when ServiceList fails, Run makes no oracle query and no
\* ServiceUpdate call and returns the error, and the process does not stop
\* because of it (the driver loop goes on to its next pass).
C6_ListingErrorKeepsRunning ==
  runErr = "ServiceList" =>
    /\ oracleCalls = <<>>
    /\ updateCalls = <<>>
    /\ pc # "panicked"

\* C6 (amended): when ServiceList fails, Run makes no oracle query and no
\* ServiceUpdate call and returns the error, and the driver loop then stops
\* the process with log.Panic: it neither sleeps nor starts another pass.
C6_ListingErrorPanics ==
  runErr = "ServiceList" =>
    /\ oracleCalls = <<>>
    /\ updateCalls = <<>>
    /\ snapshot = <<>>
    /\ pc \in {"returned", "panicked"}

\* C6 witness: the process has panicked on a listing error in a pass after
\* the first.
C6_Witness ==
  /\ pc = "panicked"
  /\ runErr = "ServiceList"
  /\ now > 0

----------------------------------------------------------------------------
(* Properties of deploy, getUpdateParallelism and parseDockerURL *)

\* C7: the ServiceUpdate call deploy issues for target T carries the listed
\* ID and a spec whose image is T, whose label set exists and has
\* lastDockerURL = T, whose failure action is "pause" and whose parallelism
\* is replicas / 10 + 1 (1 when the replica count is undefined).
C7_DeploySubmitsTarget ==
  pc = "deployed" =>
    LET call == deployOut[1]
        mode == deployIn.service.Spec.Mode
        T == deployIn.dockerURL
    IN /\ call.ID = deployIn.service.ID
       /\ call.Spec.Image = T
       /\ ~call.Spec.Labels.isNil
       /\ LabelLastDockerURL \in DOMAIN call.Spec.Labels.kv
       /\ call.Spec.Labels.kv[LabelLastDockerURL] = T
       /\ LabelLastUpdatedAt \in DOMAIN call.Spec.Labels.kv
       /\ call.Spec.UpdateConfig.FailureAction = StrPause
       /\ call.Spec.UpdateConfig.Parallelism =
            (IF mode.Replicated /\ mode.HasReplicas
               THEN (mode.Replicas \div 10) + 1 ELSE 1)

\* C7 witness: deploy was called on a service with a nil label map and 25
\* replicas, for a target with a digest.
C7_Witness ==
  /\ pc = "deployed"
  /\ deployIn.service.Spec.Labels.isNil
  /\ deployIn.service.Spec.Mode.HasReplicas
  /\ deployIn.service.Spec.Mode.Replicas = 25
  /\ deployIn.dockerURL = ImgV2 \o Digest
  /\ deployOut[1].Spec.UpdateConfig.Parallelism = 3

\* C8: getUpdateParallelism is 1 for 1..9 replicas, 2 for 10..19, 10 for 95,
\* and 1 when the service is not replicated or Replicas is nil.
C8_ParallelismTable ==
  pc = "parallelism" =>
    /\ (~replIn.Replicated \/ ~replIn.HasReplicas) => replOut = <<1>>
    /\ (replIn.Replicated /\ replIn.HasReplicas) =>
         /\ replIn.Replicas \in 1..9 => replOut = <<1>>
         /\ replIn.Replicas \in 10..19 => replOut = <<2>>
         /\ replIn.Replicas = 95 => replOut = <<10>>

\* C8 witness: getUpdateParallelism was called for 95 replicas.
C8_Witness ==
  /\ pc = "parallelism"
  /\ replIn.Replicated /\ replIn.HasReplicas
  /\ replIn.Replicas = 95
  /\ replOut = <<10>>

\* ceil(r / 10), at least 1: the least p >= 1 with 10 * p >= r
CeilTenth(r) == CHOOSE p \in 1..(r + 1) :
                  /\ 10 * p >= r
                  /\ \A q \in 1..(p - 1) : 10 * q < r

\* C16 (as stated): for every defined replica count r the parallelism is
\* ceil(r / 10), at least 1.
C16_ParallelismIsCeiling ==
  (pc = "parallelism" /\ replIn.Replicated /\ replIn.HasReplicas) =>
    replOut = <<CeilTenth(replIn.Replicas)>>

\* C16 (amended): for every defined replica count r the parallelism p is
\* floor(r / 10) + 1, the one p with 10 * (p - 1) <= r < 10 * p; it is
\* ceil(r / 10) unless r is a multiple of 10, and then one more (1 for r = 0).
C16_ParallelismFormula ==
  (pc = "parallelism" /\ replIn.Replicated /\ replIn.HasReplicas) =>
    LET r == replIn.Replicas
        p == replOut[1]
    IN /\ 10 * (p - 1) <= r
       /\ r < 10 * p
       /\ (r % 10 # 0) => p = CeilTenth(r)
       /\ (r % 10 = 0 /\ r > 0) => p = CeilTenth(r) + 1

\* C16 witness: getUpdateParallelism gave 2 for 10 replicas and the ceiling
\* is 1.
C16_Witness ==
  /\ pc = "parallelism"
  /\ replIn.Replicated /\ replIn.HasReplicas
  /\ replIn.Replicas = 10
  /\ replOut = <<2>>
  /\ CeilTenth(10) = 1

Positions(str, ch) == {i \in 1..Len(str) : str[i] = ch}
Between(str, i, j) == SubSeq(str, i + 1, j - 1)
AllEmpty == <<Empty, Empty, Empty>>

\* the shape rules, stated on the positions of ':' and '/' in the input: the
\* path is what precedes the only ':', the tag what follows it
ShapeRules(str) ==
  LET colons == Positions(str, ":")
  IN IF Cardinality(colons) # 1 THEN AllEmpty
     ELSE LET c == CHOOSE i \in colons : TRUE
              slashes == {i \in Positions(str, "/") : i < c}
              tag == Between(str, c, Len(str) + 1)
          IN IF Cardinality(slashes) = 1
               THEN LET p == CHOOSE i \in slashes : TRUE
                    IN <<Between(str, 0, p), Between(str, p, c), tag>>
             ELSE IF Cardinality(slashes) = 2
               THEN LET p == CHOOSE i \in slashes : \A j \in slashes : i <= j
                        q == CHOOSE i \in slashes : \A j \in slashes : j <= i
                    IN <<Between(str, p, q), Between(str, q, c), tag>>
             ELSE AllEmpty

\* C9: for an input without '@': exactly one ':' and a path of 2 segments
\* give (segment0, segment1, tag); a path of 3 segments gives (segment1,
\* segment2, tag); every other input gives the all-empty triple.
C9_ParseShapeRules ==
  (pc = "parsed" /\ Positions(parseIn, "@") = {}) =>
    parseOut = <<ShapeRules(parseIn)>>

\* C9 witness: a/b/a:b was parsed to (b, a, b), the host segment dropped.
C9_Witness ==
  /\ pc = "parsed"
  /\ parseIn = <<"a", "/", "b", "/", "a", ":", "b">>
  /\ parseOut = <<<< <<"b">>, <<"a">>, <<"b">> >>>>

\* C10: for a reference r without '@' and a digest suffix d, parsing
\* r + "@" + d gives the triple that parsing r gives.
C10_DigestTolerance ==
  pc = "parsedDigest" => parseOut[2] = parseOut[1]

\* C10 witness: a/b:a and a/b:a@a:b were both parsed to (a, b, a).
C10_Witness ==
  /\ pc = "parsedDigest"
  /\ parseIn = <<"a", "/", "b", ":", "a", "@", "a", ":", "b">>
  /\ parseOut[1] = << <<"a">>, <<"b">>, <<"a">> >>
  /\ parseOut[2] = << <<"a">>, <<"b">>, <<"a">> >>

----------------------------------------------------------------------------
(* Error handling and the calls of one pass *)

\* C11: when the oracle answers 200 with an empty body or with an empty
\* docker_url, no ServiceUpdate call is made for the service and no error is
\* reported for it.
C11_NoDataIsNoAction ==
  \A i \in Processed :
    OracleReturned(i, Empty) =>
      /\ UpdateCallsFor(i) = {}
      /\ ~outcome[i].err

\* C11 witness: an eligible idle service with a parseable image was asked
\* about, the oracle had no data, and Run went on to update the next service.
C11_Witness ==
  \E i \in Processed, j \in Processed :
    /\ i < j
    /\ Eligible(snapshot[i])
    /\ snapshot[i].UpdateStatus.State = UpdateStateNone
    /\ OracleReturned(i, Empty)
    /\ ~outcome[i].err
    /\ UpdateCallsFor(j) # {}

\* C12: every ServiceUpdate call of a pass is made for a service of that
\* pass's listing and carries the ID and the version token of the service's
\* record as ServiceList returned it to this pass.
C12_OptimisticConcurrency ==
  \A k \in 1..Len(updateCalls) :
    LET c == updateCalls[k]
    IN /\ c.i \in Processed
       /\ c.call.ID = snapshot[c.i].ID
       /\ c.call.Version = snapshot[c.i].Version

\* C12 witness: in a pass after the first, a service whose record an earlier
\* ServiceUpdate had moved to version 2 was updated with token 2, and a call
\* of the same pass was rejected because another client had moved the record
\* past the listed token.
C12_Witness ==
  /\ now > 0
  /\ \E k \in 1..Len(updateCalls) :
       /\ updateCalls[k].call.Version = 2
       /\ snapshot[updateCalls[k].i].Version = 2
       /\ ~updateCalls[k].err
  /\ \E k \in 1..Len(updateCalls) :
       /\ updateCalls[k].err
       /\ updateCalls[k].call.Version = snapshot[updateCalls[k].i].Version
       /\ updateCalls[k].call.Version < services[updateCalls[k].call.ID].Version

BookkeepingLabels == {LabelLastDockerURL, LabelLastUpdatedAt}

\* C13: the spec deploy submits has the fields of the listed spec, with the
\* same name, mode and rollout delay, and the same labels with the same values
\* apart from lastDockerURL and lastUpdatedAt; only the image, those two
\* labels, the parallelism and the failure action may differ.
C13_MinimalDiff ==
  pc = "deployed" =>
    LET old == deployIn.service.Spec
        new == deployOut[1].Spec
        kept == (DOMAIN old.Labels.kv) \ BookkeepingLabels
    IN /\ DOMAIN new = DOMAIN old
       /\ DOMAIN new.UpdateConfig = DOMAIN old.UpdateConfig
       /\ new.Name = old.Name
       /\ new.Mode = old.Mode
       /\ new.UpdateConfig.Delay = old.UpdateConfig.Delay
       /\ (DOMAIN new.Labels.kv) \ BookkeepingLabels = kept
       /\ \A key \in kept : new.Labels.kv[key] = old.Labels.kv[key]

\* C13 witness: deploy was called on a service with the opt-in label, an
\* older lastDockerURL, 25 replicas and parallelism 7; the submitted spec
\* keeps the opt-in label and replaces the image, lastDockerURL, parallelism
\* and failure action.
C13_Witness ==
  /\ pc = "deployed"
  /\ MapGet(deployIn.service.Spec.Labels, LabelUpdate) = StrTrue
  /\ MapGet(deployIn.service.Spec.Labels, LabelLastDockerURL) = ImgV2
  /\ deployIn.service.Spec.Mode.Replicas = 25
  /\ deployIn.dockerURL = ImgV2 \o Digest
  /\ MapGet(deployOut[1].Spec.Labels, LabelUpdate) = StrTrue
  /\ MapGet(deployOut[1].Spec.Labels, LabelLastDockerURL) = ImgV2 \o Digest
  /\ deployOut[1].Spec.Image # deployIn.service.Spec.Image
  /\ deployOut[1].Spec.UpdateConfig.Parallelism = 3
  /\ deployOut[1].Spec.UpdateConfig.FailureAction = StrPause

\* C15: for an eligible service whose current image parses to an empty
\* owner or an empty repo, updateService returns an error, the oracle is not
\* queried and no ServiceUpdate call is made.
C15_UnparseableImageFails ==
  \A i \in Processed :
    (Eligible(snapshot[i]) /\ ~Parseable(snapshot[i])) =>
      /\ outcome[i].shouldUpdate
      /\ outcome[i].err
      /\ OracleCallsFor(i) = {}
      /\ UpdateCallsFor(i) = {}

\* C15 witness: Run went past an opted-in idle service whose image b:1 has
\* no owner and reported an error for it, after it had asked the oracle about
\* the service before it.
C15_Witness ==
  \E i \in Processed, j \in Processed :
    /\ j < i
    /\ OracleCallsFor(j) # {}
    /\ OptedIn(snapshot[i])
    /\ snapshot[i].Spec.Image = ImgNoOwner
    /\ snapshot[i].UpdateStatus.State = UpdateStateNone
    /\ outcome[i].err

\* C17: in one pass every oracle query and every ServiceUpdate call belongs
\* to a service Run has gone past, and each listed service has at most one
\* oracle query and at most one ServiceUpdate call, failed or not.
C17_NoRetryInsideAPass ==
  /\ \A k \in 1..Len(oracleCalls) : oracleCalls[k].i \in Processed
  /\ \A k \in 1..Len(updateCalls) : updateCalls[k].i \in Processed
  /\ \A i \in 1..Len(snapshot) :
       /\ Cardinality(OracleCallsFor(i)) <= 1
       /\ Cardinality(UpdateCallsFor(i)) <= 1

\* C17 witness: Run returned from a pass in which the oracle query of one
\* service failed and the ServiceUpdate call of the other was rejected, each
\* made once.
C17_Witness ==
  /\ pc = "returned"
  /\ \E i \in Processed, j \in Processed :
       /\ Cardinality(OracleCallsFor(i)) = 1
       /\ \A k \in OracleCallsFor(i) : oracleCalls[k].err
       /\ Cardinality(UpdateCallsFor(j)) = 1
       /\ \A k \in UpdateCallsFor(j) : updateCalls[k].err

\* a ServiceUpdate call without the value of its lastUpdatedAt label
WithoutTimestamp(call) ==
  [call EXCEPT !.Spec.Labels.kv =
     [key \in (DOMAIN call.Spec.Labels.kv) \ {LabelLastUpdatedAt} |->
        call.Spec.Labels.kv[key]]]

\* the oracle's answers for the service at index i in this pass
AnswersFor(i) ==
  {[dockerURL |-> oracleCalls[k].dockerURL, err |-> oracleCalls[k].err] :
     k \in OracleCallsFor(i)}

\* The calls for one service as a function of its listed record and the
\* oracle's answers for it, and of nothing else.
CallsOf(service, answers) ==
  IF ~Eligible(service) \/ ~Parseable(service) THEN {}
  ELSE {WithoutTimestamp(deploy(service, a.dockerURL, Empty)) :
          a \in {b \in answers :
                   ~b.err /\ UpdateExpected(service, b.dockerURL)}}

\* C18: in every pass, whatever earlier passes did, the ServiceUpdate calls
\* made for a listed service (the lastUpdatedAt value left out) are the value
\* of one fixed function of the service's record in this pass's listing and
\* of the oracle's answers for it in this pass; so two passes with the same
\* listing and the same answers make the same calls.
C18_StatelessAcrossPasses ==
  \A i \in Processed :
    {WithoutTimestamp(updateCalls[k].call) : k \in UpdateCallsFor(i)}
      = CallsOf(snapshot[i], AnswersFor(i))

\* C18 witness: in a pass after the first, a service that an earlier pass
\* had updated (its record carries lastDockerURL and a later version) was
\* updated again, and a service no pass had touched was updated as well.
C18_Witness ==
  /\ now > 0
  /\ \E i \in Processed, j \in Processed :
       /\ snapshot[i].Version > 1
       /\ LastOf(i) = snapshot[i].Spec.Image
       /\ UpdateCallsFor(i) # {}
       /\ snapshot[j].Version = 1
       /\ LastOf(j) = Empty
       /\ UpdateCallsFor(j) # {}

\* the record listed at index i shows an accepted update to t: deploy wrote
\* t as the image and as lastDockerURL, and no other client has relabelled
\* the service since
UpdatedTo(i, t) ==
  /\ t # Empty
  /\ snapshot[i].Spec.Image = t
  /\ LastOf(i) = t
  /\ LabelOf(snapshot[i], "team") # <<"y">>
  /\ LabelOf(services[snapshot[i].ID], "team") # <<"y">>

\* C19: once an update to T has been accepted (the listed image is T, with or
\* without a digest) and the oracle answers T again, the pass makes no
\* ServiceUpdate call for the service, whether its rollout ended completed or
\* paused.
C19_ConvergenceWithoutUpdateStorm ==
  \A i \in Processed : \A t \in OracleURLs :
    (UpdatedTo(i, t) /\ OracleReturned(i, t)) => UpdateCallsFor(i) = {}

----------------------------------------------------------------------------
(* Shutdown *)

SignalReceived == goroutine # "waiting"

\* C14: under every interleaving of the SIGTERM goroutine with the driver
\* loop, the loop does not go on to a new call of Run once the signal has
\* been received, and the process exits only at the top of the loop, between
\* passes.
C14_GracefulShutdown ==
  [][/\ (pc = "loop" /\ pc' = "run") => ~SignalReceived
     /\ (pc # "exited" /\ pc' = "exited") => pc = "loop"]_vars

\* C20 (as stated): once the signal has been received, and every call of Run
\* returning, the process eventually exits with status 0 at the shutdown
\* check.
C20_EventuallyExitsZero == SignalReceived ~> (pc = "exited")

\* C20 (amended): once the signal has been received, and every call of Run
\* returning, the process eventually ends: at the shutdown check with status
\* 0 when the calls of Run return nil, or earlier by log.Panic when a call of
\* Run returns an error.
C20_ShutdownLiveness ==
  SignalReceived ~> (\/ pc = "exited" /\ sigTermReceived
                     \/ pc = "panicked" /\ runErr # "nil")

\* C20 witness: the process has exited at the shutdown check after the signal
\* arrived during a pass that was not the first.
C20_Witness ==
  /\ pc = "exited"
  /\ goroutine = "done"
  /\ sigTermReceived
  /\ now > 0

====
